---- MODULE Spec2Model ----
(***************************************************************************)
(* vcs-resolve: a run of main() of src/vcs-resolve.py as a state machine.  *)
(* Strings are TLA+ strings; the Python string methods and the urllib      *)
(* functions the program calls are operators that compute what the Python  *)
(* functions compute, character by character.                              *)
(***************************************************************************)
EXTENDS Integers, Sequences, FiniteSets, TLC

(***************************************************************************)
(* Python str methods                                                      *)
(***************************************************************************)

\* F(v) and F(v, w), with v and w computed once: TLC computes the value of a
\* bound variable once, and the argument of an operator at each of its uses
With(v, F(_)) == CHOOSE r \in { F(x) : x \in {v} } : TRUE
With2(v, w, F(_, _)) == CHOOSE r \in { F(x, y) : x \in {v}, y \in {w} } : TRUE

\* the least and the greatest index of a set of 1-based indexes, 0 when empty
First(idx) == With(idx, LAMBDA S : IF S = {} THEN 0 ELSE CHOOSE i \in S : \A j \in S : i <= j)
Last(idx) == With(idx, LAMBDA S : IF S = {} THEN 0 ELSE CHOOSE i \in S : \A j \in S : i >= j)

\* s[i] for a 1-based index
Ch(s, i) == SubSeq(s, i, i)

\* the set of characters of a string
CharsOf(string) == With(string, LAMBDA s : { Ch(s, i) : i \in 1..Len(s) })

\* s[n:] for n >= 0; like a Python slice, n past the end gives ""
Drop(s, n) == IF n >= Len(s) THEN "" ELSE SubSeq(s, n + 1, Len(s))

\* s[:n] for n >= 0; like a Python slice, n past the end gives s
Take(s, n) == IF n >= Len(s) THEN s ELSE SubSeq(s, 1, n)

\* str.startswith
StartsWith(s, p) == Len(p) <= Len(s) /\ SubSeq(s, 1, Len(p)) = p

\* str.endswith
EndsWith(s, p) == Len(p) <= Len(s) /\ SubSeq(s, Len(s) - Len(p) + 1, Len(s)) = p

\* the 1-based indexes at which sub occurs in s
Occurrences(s, sub) ==
    { i \in 1..(Len(s) - Len(sub) + 1) : SubSeq(s, i, i + Len(sub) - 1) = sub }

\* str.find(sub) + 1: the 1-based index of the first occurrence, 0 when absent
Find(string, sub) == With2(string, sub, LAMBDA s, t : First(Occurrences(s, t)))

\* str.rfind(sub) + 1
RFind(string, sub) == With2(string, sub, LAMBDA s, t : Last(Occurrences(s, t)))

\* sub in s
Contains(s, sub) == Find(s, sub) > 0

\* str.lstrip(chars), chars given as a set of characters
LStrip(string, chars) ==
    With(string, LAMBDA s :
        With(First({ i \in 1..Len(s) : Ch(s, i) \notin chars }), LAMBDA k :
            IF k = 0 THEN "" ELSE Drop(s, k - 1)))

\* str.rstrip(chars)
RStrip(string, chars) ==
    With(string, LAMBDA s : Take(s, Last({ i \in 1..Len(s) : Ch(s, i) \notin chars })))

\* str.strip(chars)
Strip(s, chars) == RStrip(LStrip(s, chars), chars)

\* the characters str.strip() removes when called without an argument
Whitespace == {" ", "\t", "\n", "\r"}

\* str.replace(old, new) for a one-character old, from index i on
RECURSIVE ReplaceFrom(_, _, _, _)
ReplaceFrom(s, i, old, new) ==
    IF i > Len(s) THEN ""
    ELSE (IF Ch(s, i) = old THEN new ELSE Ch(s, i)) \o ReplaceFrom(s, i + 1, old, new)

\* str.replace(old, new) for a one-character old
Replace(string, old, new) == With2(string, new, LAMBDA s, n : ReplaceFrom(s, 1, old, n))

\* str.split(sep) for a one-character sep, of s[from:], read from index i on
RECURSIVE SplitFrom(_, _, _, _)
SplitFrom(s, sep, from, i) ==
    IF i > Len(s) THEN <<Drop(s, from - 1)>>
    ELSE IF Ch(s, i) = sep
    THEN <<SubSeq(s, from, i - 1)>> \o With(i + 1, LAMBDA j : SplitFrom(s, sep, j, j))
    ELSE SplitFrom(s, sep, from, i + 1)

\* str.split(sep) for a one-character sep: a sequence of strings
Split(string, sep) == With(string, LAMBDA s : SplitFrom(s, sep, 1, 1))

\* str.split(sep, 1)
Split1(string, sep) ==
    With(string, LAMBDA s :
        With(Find(s, sep), LAMBDA i :
            IF i = 0 THEN <<s>> ELSE <<Take(s, i - 1), Drop(s, i)>>))

\* sep.join(parts), from the i-th part on
RECURSIVE JoinFrom(_, _, _)
JoinFrom(parts, sep, i) ==
    IF i > Len(parts) THEN ""
    ELSE IF i = Len(parts) THEN parts[i]
    ELSE parts[i] \o sep \o JoinFrom(parts, sep, i + 1)

\* sep.join(parts)
Join(strings, sep) == With(strings, LAMBDA parts : JoinFrom(parts, sep, 1))

LowerLetters == "abcdefghijklmnopqrstuvwxyz"
UpperLetters == "ABCDEFGHIJKLMNOPQRSTUVWXYZ"
Digits == "0123456789"

\* str.lower of one ASCII character
LowerCh(c) ==
    With(Find(UpperLetters, c), LAMBDA k : IF k > 0 THEN Ch(LowerLetters, k) ELSE c)

\* str.lower, on ASCII, from index i on
RECURSIVE LowerFrom(_, _)
LowerFrom(s, i) == IF i > Len(s) THEN "" ELSE LowerCh(Ch(s, i)) \o LowerFrom(s, i + 1)

\* str.lower, on ASCII
Lower(string) == With(string, LAMBDA s : LowerFrom(s, 1))

(***************************************************************************)
(* urllib.parse.quote and urllib.parse.urlparse                            *)
(***************************************************************************)

\* the printable ASCII characters of codes 32 to 95, in code order
PrintableLow ==
    " !\"#$%&'()*+,-./0123456789:;<=>?@ABCDEFGHIJKLMNOPQRSTUVWXYZ[\\]^_"

\* the printable ASCII characters of codes 97 to 126, in code order
PrintableHigh == "abcdefghijklmnopqrstuvwxyz{|}~"

\* ord(c), for the ASCII characters other than code 96
Ord(char) ==
    With(char, LAMBDA c :
        IF c = "\t" THEN 9 ELSE IF c = "\n" THEN 10 ELSE IF c = "\r" THEN 13
        ELSE With2(Find(PrintableLow, c), Find(PrintableHigh, c), LAMBDA lo, hi :
                IF lo > 0 THEN 31 + lo ELSE 96 + hi))

HexDigits == "0123456789ABCDEF"

\* the percent escape of one character, two upper-case hex digits
PercentEncode(c) ==
    With(Ord(c), LAMBDA n : "%" \o Ch(HexDigits, (n \div 16) + 1) \o Ch(HexDigits, (n % 16) + 1))

\* quote's always-safe characters plus its default safe='/'
QuoteSafe == CharsOf(LowerLetters) \cup CharsOf(UpperLetters) \cup CharsOf(Digits)
             \cup {"_", ".", "-", "~", "/"}

\* urllib.parse.quote(s), from index i on
RECURSIVE QuoteFrom(_, _)
QuoteFrom(s, i) ==
    IF i > Len(s) THEN ""
    ELSE With(Ch(s, i), LAMBDA c : IF c \in QuoteSafe THEN c ELSE PercentEncode(c))
         \o QuoteFrom(s, i + 1)

\* urllib.parse.quote(s)
quote(string) == With(string, LAMBDA s : QuoteFrom(s, 1))

\* urllib.parse.scheme_chars
SchemeChars == CharsOf(LowerLetters) \cup CharsOf(UpperLetters) \cup CharsOf(Digits)
               \cup {"+", "-", "."}

\* urllib.parse.uses_params
UsesParams == {"", "ftp", "hdl", "prospero", "http", "imap", "https", "shttp", "rtsp",
               "rtspu", "sip", "sips", "mms", "sftp", "tel"}

\* the least positive of a set of indexes, or dflt when none is positive
MinPos(idx, dflt) ==
    With(First({ i \in idx : i > 0 }), LAMBDA k : IF k = 0 THEN dflt ELSE k)

\* urlsplit: the scheme, lower-cased, and what follows its colon; a prefix
\* is a scheme when it starts with a letter and holds scheme_chars only
SplitScheme(string) ==
    With(string, LAMBDA url :
        With(Find(url, ":"), LAMBDA i :
            IF /\ i > 1
               /\ Ch(url, 1) \in CharsOf(LowerLetters) \cup CharsOf(UpperLetters)
               /\ CharsOf(Take(url, i - 1)) \subseteq SchemeChars
            THEN <<Lower(Take(url, i - 1)), Drop(url, i)>>
            ELSE <<"", url>>))

\* urlsplit: the netloc, which follows '//' and ends before the first of
\* '/', '?' and '#', and the rest
SplitNetloc(string) ==
    With(string, LAMBDA url :
        IF Take(url, 2) # "//" THEN <<"", url>>
        ELSE With(Drop(url, 2), LAMBDA rest :
                With(MinPos({Find(rest, "/"), Find(rest, "?"), Find(rest, "#")}, Len(rest) + 1),
                     LAMBDA delim : <<Take(rest, delim - 1), Drop(rest, delim - 1)>>)))

\* s.split(sep, 1), with "" as the second part when sep is absent
Cut(string, sep) ==
    With(string, LAMBDA s :
        With(Find(s, sep), LAMBDA i :
            IF i > 0 THEN <<Take(s, i - 1), Drop(s, i)>> ELSE <<s, "">>))

\* urllib.parse._splitparams: cut at the first ';' of the last segment
SplitParams(string) ==
    With(string, LAMBDA url :
        With(RFind(url, "/"), LAMBDA sl :
            With(Find(Drop(url, sl), ";"), LAMBDA k :
                IF k = 0 THEN <<url, "">> ELSE <<Take(url, sl + k - 1), Drop(url, sl + k)>>)))

\* urllib.parse.urlparse(url): scheme, netloc, path, params, query, fragment
urlparse(url) ==
    With(SplitScheme(Replace(Replace(Replace(LStrip(url, Whitespace),
                                             "\t", ""), "\r", ""), "\n", "")), LAMBDA a :
    With(SplitNetloc(a[2]), LAMBDA b :
    With(Cut(b[2], "#"), LAMBDA c :
    With(Cut(c[1], "?"), LAMBDA d :
    With(IF a[1] \in UsesParams /\ Contains(d[1], ";") THEN SplitParams(d[1])
         ELSE <<d[1], "">>, LAMBDA e :
        [scheme |-> a[1], netloc |-> b[1], path |-> e[1], params |-> e[2],
         query |-> d[2], fragment |-> c[2]])))))

(***************************************************************************)
(* os.path and the file system                                             *)
(***************************************************************************)

\* os.path.dirname
dirname(p) ==
    With(Take(p, RFind(p, "/")), LAMBDA head :
        IF head # "" /\ CharsOf(head) # {"/"} THEN RStrip(head, {"/"}) ELSE head)

\* os.path.basename
basename(p) == Drop(p, RFind(p, "/"))

\* the directories of the file system the runs see
Dirs == {"/", "/w", "/w/src", "/w/src/bin", "/n"}

\* its regular files
Files == {"/w/a.py", "/w/deadbeef.py", "/w/src/a.py", "/w/src/bin/x.py"}

\* the root of the one working copy: the output of git rev-parse
\* --show-toplevel and of hg root
WorkTree == "/w"

\* the segments of a path with "", "." and ".." resolved, as the kernel
\* resolves them, from the i-th segment on; acc is the resolved prefix
RECURSIVE NormFrom(_, _, _)
NormFrom(segs, i, acc) ==
    IF i > Len(segs) THEN acc
    ELSE With(IF segs[i] \in {"", "."} THEN acc
              ELSE IF segs[i] # ".." THEN Append(acc, segs[i])
              ELSE IF Len(acc) = 0 THEN acc ELSE SubSeq(acc, 1, Len(acc) - 1),
              LAMBDA a : NormFrom(segs, i + 1, a))

\* the resolved segments of a path
NormSegs(path) == With(Split(path, "/"), LAMBDA segs : NormFrom(segs, 1, <<>>))

\* the absolute path that p names for a process whose working directory is cwd
AbsPath(cwd, p) ==
    "/" \o Join(NormSegs(IF StartsWith(p, "/") THEN p ELSE cwd \o "/" \o p), "/")

\* os.path.isdir
isdir(cwd, p) == p # "" /\ AbsPath(cwd, p) \in Dirs

\* whether dir lies in the working copy
InWorkTree(dir) == dir = WorkTree \/ StartsWith(dir, WorkTree \o "/")

(***************************************************************************)
(* class Repo, class Git, class Hg                                         *)
(***************************************************************************)

\* the least number of characters COMMIT_RE asks for
CommitMinLen == 7

\* the character class of COMMIT_RE
CommitChars == CharsOf("abcdef0123456789")

\* Repo.is_commit: COMMIT_RE.match(what), a match at the start of what
is_commit(what) ==
    /\ Len(what) >= CommitMinLen
    /\ CharsOf(Take(what, CommitMinLen)) \subseteq CommitChars

\* Repo.relpath
relpath(what, toplevel) ==
    With(LStrip(IF StartsWith(what, toplevel) THEN Drop(what, Len(toplevel)) ELSE what, {"/"}),
         LAMBDA w : IF w = "." THEN "" ELSE w)

\* the marker of a rev-parse of an upstream that is not configured
NoUpstream == "<none>"

\* Git.branch: upstream is the output of rev-parse --abbrev-ref @{u}, or
\* NoUpstream when that command fails; local is the output of
\* rev-parse --abbrev-ref @
GitBranch(upstream, local) ==
    IF upstream = NoUpstream THEN local
    ELSE With(Split1(IF StartsWith(upstream, "remotes/")
                     THEN Drop(upstream, Len("remotes/")) ELSE upstream, "/"),
              LAMBDA parts : parts[Len(parts)])

\* the marker of a loop over the output lines that found no origin
OriginNotFound == "<Origin not found>"

\* Git.ORIGIN_RE: the group of a line that matches, NoMatch otherwise
NoMatch == "<no match>"

GitOriginMatch(line) ==
    IF /\ StartsWith(line, "origin")
       /\ EndsWith(line, "(fetch)")
       /\ Len(line) >= Len("origin") + Len("(fetch)")
       /\ ~ Contains(line, "\n")
    THEN SubSeq(line, Len("origin") + 1, Len(line) - Len("(fetch)"))
    ELSE NoMatch

\* Hg.ORIGIN_RE
HgOriginMatch(line) ==
    IF StartsWith(line, "default = ") /\ ~ Contains(line, "\n")
    THEN Drop(line, Len("default = "))
    ELSE NoMatch

\* the loop of Git.origin and Hg.origin over the output lines, from the
\* i-th line on: the stripped group of the first line that matches, as text
\* (urlparse is applied by the callers below)
RECURSIVE OriginFrom(_, _, _)
OriginFrom(backend, lines, i) ==
    IF i > Len(lines) THEN OriginNotFound
    ELSE With(IF backend = "Git" THEN GitOriginMatch(lines[i]) ELSE HgOriginMatch(lines[i]),
              LAMBDA m : IF m # NoMatch THEN Strip(m, Whitespace)
                         ELSE OriginFrom(backend, lines, i + 1))

\* the loop of Git.origin and Hg.origin over the lines of the output
OriginText(backend, output) == With(output, LAMBDA lines : OriginFrom(backend, lines, 1))

(***************************************************************************)
(* class Resolver and its subclasses                                       *)
(***************************************************************************)

\* the list Resolver.get walks
ResolverOrder ==
    <<"GitHub", "BitBucket", "Kiln", "YGGitLab", "RocheBitBucket", "RocheGitLab", "RocheTFS">>

GitResolvers == {"GitHub", "YGGitLab", "RocheGitLab", "RocheTFS"}
BitResolvers == {"BitBucket", "RocheBitBucket"}

\* the HOSTNAME attribute of a class
HOSTNAME(cls) ==
    CASE cls = "GitHub" -> "github.com"
      [] cls = "YGGitLab" -> "gitlab.yougov.net"
      [] cls = "BitBucket" -> "bitbucket.org"
      [] cls = "RocheBitBucket" -> "bitbucket.roche.com"
      [] cls = "RocheGitLab" -> "code.roche.com"
      [] cls = "RocheTFS" -> "tfsprod.emea.roche.com"
      [] OTHER -> "kilnhg.com"

\* the LINE_SEP attribute of a class
LINE_SEP(cls) == cls # "RocheTFS"

LINE_SEP_FROM == "#L"

\* the LINE_SEP_TO attribute of a class
LINE_SEP_TO(cls) == IF cls \in {"YGGitLab", "RocheGitLab"} THEN "-" ELSE "-L"

\* GitResolver.can_resolve
GitCanResolve(cls, origin) ==
    \/ Contains(origin.scheme, HOSTNAME(cls))
    \/ Contains(origin.netloc, HOSTNAME(cls))
    \/ Contains(origin.path, HOSTNAME(cls))

\* BitResolver.can_resolve
BitCanResolve(cls, origin) ==
    \/ origin.scheme \in {"bitbucket", "bb"}
    \/ Contains(origin.scheme, HOSTNAME(cls))
    \/ Contains(origin.netloc, HOSTNAME(cls))
    \/ Contains(origin.path, HOSTNAME(cls))

\* Kiln.can_resolve
KilnCanResolve(origin) ==
    \/ origin.scheme \in {"kiln"}
    \/ Contains(origin.netloc, "kilnhg.com")

\* cls.can_resolve(origin)
can_resolve(cls, origin) ==
    IF cls \in GitResolvers THEN GitCanResolve(cls, origin)
    ELSE IF cls \in BitResolvers THEN BitCanResolve(cls, origin)
    ELSE KilnCanResolve(origin)

\* the marker of a loop over ResolverOrder that found no class
UnknownResolver == "<Unknown resolver>"

\* a Resolver.get that falls back to the first class of the table when no
\* class can resolve the origin
ResolverGet_Fallback(repoOrigin) ==
    With(repoOrigin, LAMBDA origin :
        With(First({ i \in 1..Len(ResolverOrder) : can_resolve(ResolverOrder[i], origin) }),
             LAMBDA i : IF i = 0 THEN ResolverOrder[1] ELSE ResolverOrder[i]))

\* Resolver.get: the first class of ResolverOrder that can resolve the origin
ResolverGet(repoOrigin) ==
    With(repoOrigin, LAMBDA origin :
        With(First({ i \in 1..Len(ResolverOrder) : can_resolve(ResolverOrder[i], origin) }),
             LAMBDA i : IF i = 0 THEN UnknownResolver ELSE ResolverOrder[i]))

\* the outcome of a call: the value returned, or the exception raised
Returned(v) == [exc |-> "", val |-> v]
Raised(e) == [exc |-> e, val |-> ""]

\* GitResolver.repo_path (RocheGitLab and RocheTFS redefine it with the same body)
GitRepoPath(cls, originPath) ==
    With(IF EndsWith(originPath, ".git") THEN Take(originPath, Len(originPath) - 4)
         ELSE originPath,
         LAMBDA o : IF Contains(o, HOSTNAME(cls) \o ":")
                    THEN With(Split1(o, ":"), LAMBDA parts : parts[Len(parts)])
                    ELSE o)

\* GitResolver.user
GitUser(cls, originPath) == Split(Strip(GitRepoPath(cls, originPath), {"/"}), "/")[1]

\* GitResolver.repo: split('/', 1)[1] raises IndexError on a single segment
GitRepo(cls, originPath) ==
    With(Split1(Strip(GitRepoPath(cls, originPath), {"/"}), "/"),
         LAMBDA parts : IF Len(parts) < 2 THEN Raised("IndexError") ELSE Returned(parts[2]))

\* GitResolver._adjust_lines
_adjust_lines(cls, path) ==
    With2(path, Find(path, ":"), LAMBDA p, idx :
        IF idx = 0 THEN p
        ELSE IF LINE_SEP(cls)
        THEN Take(p, idx - 1)
             \o Replace(Replace(Drop(p, idx - 1), ":", LINE_SEP_FROM), ",", LINE_SEP_TO(cls))
        ELSE Take(p, idx - 1))

\* GitResolver.get_path: the pair (p, is_commit)
GitGetPath(cls, what, toplevel) ==
    IF is_commit(what)
    THEN [p |-> _adjust_lines(cls, what), is_commit |-> TRUE]
    ELSE [p |-> _adjust_lines(cls, relpath(what, toplevel)), is_commit |-> FALSE]

\* the BLOB_FMT of a GitResolver class, formatted
GitBlob(cls, branch, path) ==
    IF cls = "RocheTFS" THEN "?path=" \o path \o "&version=GB" \o branch
    ELSE "/blob/" \o branch \o "/" \o path

\* GitResolver.resolve
GitResolve(cls, what, originPath, toplevel, branch) ==
    With2(GitRepo(cls, originPath), GitGetPath(cls, what, toplevel), LAMBDA repo, gp :
        IF repo.exc # "" THEN repo
        ELSE With("https://" \o HOSTNAME(cls) \o "/" \o GitUser(cls, originPath)
                  \o "/" \o repo.val,
                  LAMBDA url :
                      IF gp.is_commit THEN Returned(url \o "/commit/" \o gp.p)
                      ELSE IF gp.p # "" THEN Returned(url \o GitBlob(cls, branch, quote(gp.p)))
                      ELSE Returned(url)))

\* BitResolver.user, and RocheBitBucket.user
BitUser(cls, originPath) ==
    IF cls = "RocheBitBucket"
    THEN Split(Strip(Strip(originPath, {"/"}), {"~"}), "/")[1]
    ELSE Split(Strip(originPath, {"/"}), "/")[1]

\* BitResolver.repo: split('/')[1] raises IndexError on a single segment
BitRepo(originPath) ==
    With(Split(Strip(originPath, {"/"}), "/"), LAMBDA parts :
        IF Len(parts) < 2 THEN Raised("IndexError")
        ELSE Returned(IF EndsWith(parts[2], ".git") THEN Take(parts[2], Len(parts[2]) - 4)
                      ELSE parts[2]))

\* RocheBitBucket.repo_type
repo_type(originPath) ==
    IF StartsWith(Strip(originPath, {"/"}), "~") THEN "users" ELSE "projects"

\* BitBucket._split_lines: the pair (p, lines)
BitBucketSplitLines(path) ==
    With2(path, Find(path, ":"), LAMBDA p, idx :
        IF idx = 0 THEN [p |-> p, lines |-> ""]
        ELSE [p |-> Take(p, idx - 1),
              lines |-> Replace(Replace(Drop(p, idx - 1), ":",
                                        "#" \o basename(Take(p, idx - 1)) \o "-"), ",", ":")])

\* RocheBitBucket._split_lines and Kiln._split_lines (the same body)
HashSplitLines(path) ==
    With2(path, Find(path, ":"), LAMBDA p, idx :
        IF idx = 0 THEN [p |-> p, lines |-> ""]
        ELSE [p |-> Take(p, idx - 1),
              lines |-> Replace(Replace(Drop(p, idx - 1), ":", "#"), ",", "-")])

\* BitResolver.get_path: ((p, lines), is_commit)
BitGetPath(cls, what, toplevel) ==
    With(IF is_commit(what) THEN what ELSE relpath(what, toplevel), LAMBDA p :
        With(IF cls = "BitBucket" THEN BitBucketSplitLines(p) ELSE HashSplitLines(p), LAMBDA sl :
            [p |-> sl.p, lines |-> sl.lines, is_commit |-> is_commit(what)]))

\* the marker of a backend that has no changeset attribute (class Git)
NoChangeset == "<no attribute>"

\* BitBucket.resolve
BitBucketResolve(what, originPath, toplevel, branch, changeset) ==
    With2(BitRepo(originPath), BitGetPath("BitBucket", what, toplevel), LAMBDA repo, gp :
        IF repo.exc # "" THEN repo
        ELSE With("https://" \o HOSTNAME("BitBucket") \o "/" \o BitUser("BitBucket", originPath)
                  \o "/" \o repo.val,
                  LAMBDA url :
                      IF gp.is_commit THEN Returned(url \o "/commits/" \o gp.p \o gp.lines)
                      ELSE IF changeset = NoChangeset THEN Raised("AttributeError")
                      ELSE Returned(url \o "/src/" \o changeset \o "/" \o gp.p
                                    \o "?at=" \o branch \o gp.lines)))

\* RocheBitBucket.resolve
RocheBitBucketResolve(what, originPath, toplevel, branch) ==
    With2(BitRepo(originPath), BitGetPath("RocheBitBucket", what, toplevel), LAMBDA repo, gp :
        IF repo.exc # "" THEN repo
        ELSE With("https://" \o HOSTNAME("RocheBitBucket") \o "/stash/" \o repo_type(originPath)
                  \o "/" \o BitUser("RocheBitBucket", originPath) \o "/repos/" \o repo.val,
                  LAMBDA url :
                      IF gp.is_commit THEN Returned(url \o "/commits/" \o gp.p \o gp.lines)
                      ELSE Returned(url \o "/browse/" \o quote(gp.p)
                                    \o "?at=" \o branch \o gp.lines)))

\* Kiln.user
KilnUser(netloc) == Split1(netloc, "@")[1]

\* Kiln.repo
KilnRepo(originPath) == LStrip(originPath, {"/"})

\* the set hidden_segments of Kiln._rewrite_hidden_segments
HiddenSegments == {"bin"}

\* the loop of Kiln._rewrite_hidden_segments over the tokens, from the i-th on
RECURSIVE RewriteFrom(_, _)
RewriteFrom(tokens, i) ==
    IF i > Len(tokens) THEN <<>>
    ELSE <<IF Strip(tokens[i], Whitespace) \in HiddenSegments
           THEN "%24" \o tokens[i] \o "%24" ELSE tokens[i]>>
         \o RewriteFrom(tokens, i + 1)

\* Kiln._rewrite_hidden_segments
_rewrite_hidden_segments(p) ==
    Join(With(Split(p, "/"), LAMBDA tokens : RewriteFrom(tokens, 1)), "/")

\* Kiln.get_path: the pair (p, lines)
KilnGetPath(what, toplevel) ==
    IF is_commit(what) THEN HashSplitLines("History/" \o what)
    ELSE HashSplitLines(_rewrite_hidden_segments("Files/" \o relpath(what, toplevel)))

\* Kiln.resolve
KilnResolve(what, origin, toplevel, branch) ==
    With(KilnGetPath(what, toplevel), LAMBDA gp :
        Returned("https://" \o KilnUser(origin.netloc) \o ".kilnhg.com/Code/"
                 \o KilnRepo(origin.path) \o "/" \o quote(gp.p) \o "?rev=" \o branch \o gp.lines))

\* resolver.resolve(what) for the resolver class cls
Resolve(cls, what, repoOrigin, toplevel, branch, changeset) ==
    With(repoOrigin, LAMBDA origin :
        IF cls \in GitResolvers THEN GitResolve(cls, what, origin.path, toplevel, branch)
        ELSE IF cls = "BitBucket"
        THEN BitBucketResolve(what, origin.path, toplevel, branch, changeset)
        ELSE IF cls = "RocheBitBucket"
        THEN RocheBitBucketResolve(what, origin.path, toplevel, branch)
        ELSE KilnResolve(what, origin, toplevel, branch))

(***************************************************************************)
(* The environment of a run                                                *)
(***************************************************************************)

\* the marker of a repository that has no remote named origin (Git) or no
\* path named default (Hg)
NoRemote == "<no remote>"

\* the command lines the runs are started with: sys.argv[1:]
Argvs ==
    { <<>>, <<".">>, <<"/w">>, <<"/n">>, <<"a.py">>, <<"a.py:3">>, <<"a.py:3,7">>,
      <<"src/a.py">>, <<"/w/src/a.py">>, <<"src/bin/x.py">>, <<"bin/x.py:3,7">>,
      <<"bin">>, <<"deadbeef">>, <<"deadbeef.py">> }

\* the directories the runs are started in
StartDirs == {"/w", "/w/src"}

\* the remote URLs of the working copy
Remotes ==
    { NoRemote,
      "https://github.com/u/r.git",
      "git@github.com:u/r.git",
      "https://github.com/r",
      "https://bitbucket.org/u/r.git",
      "https://u.kilnhg.com/Code/r",
      "https://gitlab.yougov.net/u/r.git",
      "https://gitlab.yougov.net/mirror/github.com-r.git",
      "ssh://git@bitbucket.roche.com/~u/r.git",
      "https://code.roche.com/u/r.git",
      "https://tfsprod.emea.roche.com/u/r",
      "https://example.com/u/r" }

\* the upstream branches rev-parse --abbrev-ref @{u} reports
Upstreams == {NoUpstream, "origin/main"}

\* the local branch names
Locals == {"main", "dev"}

\* the outputs of hg id
HgIds == {"0a1b2c3d4e5f", "0a1b2c3d4e5f+"}

\* the environments: what the working copy is, what the VCS tools report in it
\* and how the program is started.  The fields a backend's tools report are
\* fixed when that backend is absent.
EnvOk(e) ==
    /\ (~ e.git /\ ~ e.hg) => (e.local = "main" /\ e.remote = NoRemote)
    /\ ~ e.git => e.upstream = NoUpstream
    /\ ~ e.hg => e.hgid = "0a1b2c3d4e5f"

Envs ==
    { e \in [argv : Argvs, cwd0 : StartDirs, git : BOOLEAN, hg : BOOLEAN, remote : Remotes,
             upstream : Upstreams, local : Locals, hgid : HgIds] : EnvOk(e) }

\* the output lines of git remote -v
GitRemoteV(remote) ==
    IF remote = NoRemote
    THEN <<"upstream\thttps://github.com/u/r.git (fetch)",
           "upstream\thttps://github.com/u/r.git (push)">>
    ELSE <<"origin\t" \o remote \o " (fetch)", "origin\t" \o remote \o " (push)">>

\* the output lines of hg paths
HgPaths(remote) ==
    IF remote = NoRemote THEN <<"upstream = https://bitbucket.org/u/r">>
    ELSE <<"default = " \o remote>>

\* whether git status (hg status) succeeds in directory dir
GitStatusOk(e, dir) == e.git /\ InWorkTree(dir)
HgStatusOk(e, dir) == e.hg /\ InWorkTree(dir)

\* the subclasses of Repo
Backends == {"Git", "Hg"}

\* repo.origin as text, for a repository of class backend
RepoOriginText(remote, backend) ==
    OriginText(backend, IF backend = "Git" THEN GitRemoteV(remote) ELSE HgPaths(remote))

\* repo.origin
RepoOrigin(remote, backend) == urlparse(RepoOriginText(remote, backend))

\* repo.branch: Git.branch, Hg.branch
RepoBranch(e, backend) ==
    IF backend = "Git" THEN GitBranch(e.upstream, e.local) ELSE e.local

\* repo.changeset: Hg.changeset; class Git has no such attribute
RepoChangeset(e, backend) == IF backend = "Hg" THEN e.hgid ELSE NoChangeset

\* main: what = sys.argv[1] if len(sys.argv) > 1 else '.'
WhatOf(argv) == IF Len(argv) > 0 THEN argv[1] ELSE "."

\* a Repo.get that changes to the parent directory of every input
WhatDir_Parent(cwd, what) ==
    IF dirname(what) = "" THEN "." ELSE dirname(what)

\* Repo.get: the directory to change to
WhatDir(cwd, what) ==
    IF isdir(cwd, what) THEN what
    ELSE IF dirname(what) = "" THEN "." ELSE dirname(what)

(***************************************************************************)
(* A run of main()                                                         *)
(***************************************************************************)

VARIABLES
    env,        \* the environment of the run
    pc,         \* the statement of main() the run is at
    cwd,        \* the working directory of the process
    probes,     \* the is_repo() calls made so far, in order
    repo,       \* the class of the Repo object: "Git", "Hg", or "" before it exists
    resolver,   \* the class of repo.resolver, or ""
    url,        \* the local variable url of main(), "" before it is assigned
    opened,     \* the URLs handed to xdg-open, in order
    stdout,     \* the lines printed
    clipboard,  \* the texts written to the X clipboard
    err,        \* the exception that ended the run, or ""
    prev        \* the records of the runs before this one

vars == <<env, pc, cwd, probes, repo, resolver, url, opened, stdout, clipboard, err, prev>>

\* the state of a process that has just been started in environment e
Start(e) ==
    /\ env' = e
    /\ pc' = "chdir"
    /\ cwd' = e.cwd0
    /\ probes' = <<>>
    /\ repo' = ""
    /\ resolver' = ""
    /\ url' = ""
    /\ opened' = <<>>
    /\ stdout' = <<>>
    /\ clipboard' = <<>>
    /\ err' = ""

Init ==
    /\ env \in Envs
    /\ pc = "chdir"
    /\ cwd = env.cwd0
    /\ probes = <<>>
    /\ repo = ""
    /\ resolver = ""
    /\ url = ""
    /\ opened = <<>>
    /\ stdout = <<>>
    /\ clipboard = <<>>
    /\ err = ""
    /\ prev = <<>>

\* the run ends with an uncaught exception e
Fail(e) == pc' = "failed" /\ err' = e

\* Repo.get, up to os.chdir(what_dir)
Chdir ==
    /\ pc = "chdir"
    /\ \E target \in {AbsPath(cwd, WhatDir(cwd, WhatOf(env.argv)))} :
          IF target \in Dirs
          THEN cwd' = target /\ pc' = "git_probe" /\ err' = err
          ELSE cwd' = cwd /\ Fail("FileNotFoundError")
    /\ UNCHANGED <<env, probes, repo, resolver, url, opened, stdout, clipboard, prev>>

\* Repo.get: if Git.is_repo(): return Git(what)
GitProbe ==
    /\ pc = "git_probe"
    /\ probes' = Append(probes, "Git")
    /\ IF GitStatusOk(env, cwd)
       THEN repo' = "Git" /\ pc' = "init"
       ELSE repo' = repo /\ pc' = "hg_probe"
    /\ UNCHANGED <<env, cwd, resolver, url, opened, stdout, clipboard, err, prev>>

\* Repo.get: if Hg.is_repo(): return Hg(what); raise ValueError('Unknown repo')
HgProbe ==
    /\ pc = "hg_probe"
    /\ probes' = Append(probes, "Hg")
    /\ IF HgStatusOk(env, cwd)
       THEN repo' = "Hg" /\ pc' = "init" /\ err' = err
       ELSE repo' = repo /\ Fail("Unknown repo")
    /\ UNCHANGED <<env, cwd, resolver, url, opened, stdout, clipboard, prev>>

\* Repo.__init__: self.resolver = Resolver.get(self)
RepoInit ==
    /\ pc = "init"
    /\ IF RepoOriginText(env.remote, repo) = OriginNotFound
       THEN resolver' = resolver /\ Fail("Origin not found")
       ELSE \E cls \in {ResolverGet(RepoOrigin(env.remote, repo))} :
               IF cls = UnknownResolver
               THEN resolver' = resolver /\ Fail("Unknown resolver")
               ELSE resolver' = cls /\ pc' = "resolve" /\ err' = err
    /\ UNCHANGED <<env, cwd, probes, repo, url, opened, stdout, clipboard, prev>>

\* repo.resolve() for the run's repository
RunResolve ==
    Resolve(resolver, WhatOf(env.argv), RepoOrigin(env.remote, repo), WorkTree,
            RepoBranch(env, repo), RepoChangeset(env, repo))

\* main: url = repo.resolve()
RepoResolve ==
    /\ pc = "resolve"
    /\ \E r \in {RunResolve} :
          IF r.exc # ""
          THEN url' = url /\ Fail(r.exc)
          ELSE url' = r.val /\ pc' = "open" /\ err' = err
    /\ UNCHANGED <<env, cwd, probes, repo, resolver, opened, stdout, clipboard, prev>>

\* main: xdg_open(url); check_output raises when xdg-open exits non-zero
XdgOpen ==
    /\ pc = "open"
    /\ opened' = Append(opened, url)
    /\ \E ok \in BOOLEAN :
          IF ok THEN pc' = "print" /\ err' = err ELSE Fail("CalledProcessError")
    /\ UNCHANGED <<env, cwd, probes, repo, resolver, url, stdout, clipboard, prev>>

\* main: print(url)
PrintUrl ==
    /\ pc = "print"
    /\ stdout' = Append(stdout, url)
    /\ pc' = "done"
    /\ UNCHANGED <<env, cwd, probes, repo, resolver, url, opened, clipboard, err, prev>>

\* the run is over
Terminated == pc \in {"done", "failed"}

\* the environments of a second run on the same command line, remote and
\* backends: the start directory and what the VCS tools report may differ
Reruns(e) ==
    { f \in { [e EXCEPT !.cwd0 = c, !.upstream = u, !.local = l, !.hgid = h] :
                c \in StartDirs, u \in Upstreams, l \in Locals, h \in HgIds } : EnvOk(f) }

\* the program is started a second time, once the first run is over
RunAgain ==
    /\ Terminated
    /\ prev = <<>>
    /\ prev' = <<[env |-> env, repo |-> repo, resolver |-> resolver, url |-> url, err |-> err]>>
    /\ \E e \in Reruns(env) : Start(e)

Next ==
    \/ Chdir
    \/ GitProbe
    \/ HgProbe
    \/ RepoInit
    \/ RepoResolve
    \/ XdgOpen
    \/ PrintUrl

\* one run of main()
Spec == Init /\ [][Next]_vars

\* one run of main() that the operating system schedules until it exits
FairSpec == Spec /\ WF_vars(Next)

\* the command lines of the runs that are followed by a second run
TwoRunArgvs == { <<>>, <<"a.py:3,7">>, <<"/w/src/a.py">>, <<"deadbeef">> }

TwoRunInit == Init /\ env.argv \in TwoRunArgvs

TwoRunNext == Next \/ RunAgain

\* two runs of main(), one after the other
TwoRunSpec == TwoRunInit /\ [][TwoRunNext]_vars

(***************************************************************************)
(* Properties                                                              *)
(***************************************************************************)

\* the input of the run
What == WhatOf(env.argv)

\* the input without its line suffix, and the line suffix without its colon
PathPart(what) == IF Find(what, ":") = 0 THEN what ELSE Take(what, Find(what, ":") - 1)
LineSuffix(what) == IF Find(what, ":") = 0 THEN "" ELSE Drop(what, Find(what, ":"))

\* the file or directory the input names for a process started in e.cwd0
NamedPath(e) == AbsPath(e.cwd0, PathPart(WhatOf(e.argv)))

\* where that file or directory lies below the toplevel
LocationInWorkTree(e) ==
    IF NamedPath(e) = WorkTree THEN "" ELSE Drop(NamedPath(e), Len(WorkTree) + 1)

\* the input names a file or directory of the working copy
NamesWorkTreeEntry(e) == InWorkTree(NamedPath(e)) /\ NamedPath(e) \in Dirs \cup Files

\* the text that precedes the path in a file URL of a provider
PathMarker(cls, branch, changeset) ==
    IF cls = "RocheTFS" THEN "?path="
    ELSE IF cls \in GitResolvers THEN "/blob/" \o branch \o "/"
    ELSE IF cls = "BitBucket" THEN "/src/" \o changeset \o "/"
    ELSE IF cls = "RocheBitBucket" THEN "/browse/"
    ELSE "/Files/"

\* the path a URL embeds: what follows the marker, up to the query or the
\* line fragment; "" when the URL has no marker
UrlPath(u, marker) ==
    LET rest == Drop(u, Find(u, marker) + Len(marker) - 1)
        stop == MinPos({Find(rest, "#"), Find(rest, "%23"), Find(rest, "?"), Find(rest, "&")},
                       Len(rest) + 1)
    IN  IF Find(u, marker) = 0 THEN "" ELSE Take(rest, stop - 1)

\* https://{hostname}/{user}/{repo} for the run's Git-style resolver
BareUrl ==
    "https://" \o HOSTNAME(resolver) \o "/"
    \o GitUser(resolver, urlparse(env.remote).path) \o "/"
    \o GitRepo(resolver, urlparse(env.remote).path).val

\* the whole input is a commit identifier
WholeCommitId(what) == Len(what) >= CommitMinLen /\ CharsOf(what) \subseteq CommitChars

\* the text that marks a commit URL of a provider
CommitMarker(cls) ==
    IF cls \in GitResolvers THEN "/commit/"
    ELSE IF cls \in BitResolvers THEN "/commits/"
    ELSE "/History/"

\* the host of a netloc: without the user and without the port
HostOf(netloc) == Cut(Drop(netloc, RFind(netloc, "@")), ":")[1]

\* the commit a changeset names: hg id marks a working copy that has
\* uncommitted changes with a '+' after the changeset
CommitOf(changeset) == RStrip(changeset, {"+"})

\* the earlier run and this one agree on the origin, the provider, the
\* backend, the toplevel (WorkTree in every run), the input with its line
\* range, the branch and the commit
SameInputs(p) ==
    /\ p.env.remote = env.remote
    /\ p.resolver = resolver
    /\ p.repo = repo
    /\ p.env.argv = env.argv
    /\ RepoBranch(p.env, p.repo) = RepoBranch(env, repo)
    /\ CommitOf(RepoChangeset(p.env, p.repo)) = CommitOf(RepoChangeset(env, repo))

\* C1: two runs that agree on origin, provider, backend, toplevel, input
\* path, line range, branch and commit return the same URL from
\* Repo.resolve(), whatever the rest of the repository and process state
C1_SameInputsSameUrl ==
    (prev # <<>> /\ url # "" /\ prev[1].url # "" /\ SameInputs(prev[1]))
        => url = prev[1].url

\* the path C2 expects in the URL: empty for the input '.', and otherwise
\* the location below the toplevel
C2_ExpectedPath == IF What = "." THEN "" ELSE LocationInWorkTree(env)

\* C2: for an input that is not resolved as a commit and names a file or
\* directory of the working copy, the path in the resolved URL is the
\* location of that file or directory below the toplevel; it is empty for the
\* toplevel and for '.', and a Git-style resolver then returns the bare
\* repository URL.  (Kiln paths with a hidden segment are left to C9.)
C2_UrlPathIsLocation ==
    ( /\ url # ""
      /\ ~ is_commit(What)
      /\ NamesWorkTreeEntry(env)
      /\ resolver = "Kiln" => ~ Contains(C2_ExpectedPath, "bin") )
        => /\ UrlPath(url, PathMarker(resolver, RepoBranch(env, repo), RepoChangeset(env, repo)))
                = C2_ExpectedPath
           /\ (C2_ExpectedPath = "" /\ resolver \in GitResolvers) => url = BareUrl

\* C3: for GitHub, YGGitLab and RocheGitLab and an input f:A or f:A,B that is
\* not resolved as a commit, the URL is the blob URL of f followed by the
\* unescaped fragment #LA, or #LA-LB (GitHub) or #LA-B (the GitLab variants)
C3_LineFragment ==
    ( /\ url # ""
      /\ resolver \in {"GitHub", "YGGitLab", "RocheGitLab"}
      /\ ~ is_commit(What)
      /\ Contains(What, ":") )
        => url = BareUrl \o "/blob/" \o RepoBranch(env, repo) \o "/"
                 \o relpath(PathPart(What), WorkTree)
                 \o LINE_SEP_FROM \o Replace(LineSuffix(What), ",", LINE_SEP_TO(resolver))

\* the run has changed directory, and the directory is not a repository, or
\* the VCS reports no origin, or no provider of the table accepts the origin
C4_Doomed ==
    /\ pc # "chdir"
    /\ err # "FileNotFoundError"
    /\ \/ ~ GitStatusOk(env, cwd) /\ ~ HgStatusOk(env, cwd)
       \/ env.remote = NoRemote
       \/ With(urlparse(env.remote), LAMBDA origin :
                \A i \in 1..Len(ResolverOrder) : ~ can_resolve(ResolverOrder[i], origin))

\* C4: such a run never opens or prints a URL, ends with one of the three
\* errors, makes no is_repo() call twice, and takes no step after the error
C4_ErrorsEndTheRun ==
    /\ [](C4_Doomed => (opened = <<>> /\ stdout = <<>> /\ pc # "done"))
    /\ (C4_Doomed ~> (pc = "failed"
                      /\ err \in {"Unknown repo", "Origin not found", "Unknown resolver"}))
    /\ [](Len(probes) <= 2 /\ (Len(probes) = 2 => probes[1] # probes[2]))
    /\ [][pc # "failed"]_vars

\* a run that ended with 'Unknown resolver' and opened nothing
C4_Witness ==
    C4_Doomed /\ pc = "failed" /\ err = "Unknown resolver" /\ opened = <<>> /\ stdout = <<>>

\* C5: once a backend is detected, its origin found and a provider chosen,
\* resolve() returns a URL
C5_ResolveReturnsUrl == (resolver # "" /\ pc # "resolve") => url # ""

\* C6: the resolver is the first class of the table that accepts the origin,
\* 'Unknown resolver' is raised exactly when no class accepts it, and an
\* origin whose host is the hostname of a provider is resolved by that provider
C6_ResolverMatchesHost ==
    LET origin == urlparse(env.remote)
        accepting == { i \in 1..Len(ResolverOrder) : can_resolve(ResolverOrder[i], origin) }
    IN  /\ resolver # ""
            => /\ accepting # {}
               /\ \A i \in accepting : resolver = ResolverOrder[i] \/ \E j \in accepting : j < i
               /\ \A cls \in GitResolvers \cup BitResolvers :
                     HostOf(origin.netloc) = HOSTNAME(cls) => resolver = cls
        /\ err = "Unknown resolver"
            <=> (pc = "failed" /\ repo # "" /\ env.remote # NoRemote /\ accepting = {})

\* C7: a run whose URL was resolved ends with that URL printed, the same URL
\* handed to the opener once, and the clipboard untouched
C7_ResolvedUrlIsPrinted ==
    (Terminated /\ url # "") => (stdout = <<url>> /\ opened = <<url>> /\ clipboard = <<>>)

\* the parent directory of an input: '.' when it has no directory part
ParentOf(what) == IF RFind(what, "/") = 0 THEN "." ELSE Take(what, RFind(what, "/"))

\* the directory Repo.get is to change to
C8_ExpectedDir ==
    IF AbsPath(env.cwd0, What) \in Dirs THEN AbsPath(env.cwd0, What)
    ELSE AbsPath(env.cwd0, ParentOf(What))

\* C8: the backends are probed after the change of directory, Git first and
\* Hg only after the Git probe failed; a Git repository is chosen whenever
\* git status succeeds, also when hg status would; 'Unknown repo' is raised
\* exactly when both probes failed
C8_ProbeOrder ==
    /\ probes \in {<<>>, <<"Git">>, <<"Git", "Hg">>}
    /\ probes # <<>> => cwd = C8_ExpectedDir
    /\ Len(probes) = 2 => ~ GitStatusOk(env, cwd)
    /\ (probes # <<>> /\ GitStatusOk(env, cwd)) => repo = "Git"
    /\ repo = "Git" => GitStatusOk(env, cwd)
    /\ repo = "Hg" <=> (Len(probes) = 2 /\ HgStatusOk(env, cwd))
    /\ err = "Unknown repo"
        <=> (Len(probes) = 2 /\ ~ GitStatusOk(env, cwd) /\ ~ HgStatusOk(env, cwd))

\* an Hg repository found after the Git probe failed, in a directory other
\* than the one the run was started in
C8_Witness ==
    repo = "Hg" /\ probes = <<"Git", "Hg">> /\ cwd # env.cwd0 /\ ~ GitStatusOk(env, cwd)

\* a path segment as C9 says Kiln shows it
C9_Segment(seg) == IF seg \in HiddenSegments THEN "%24" \o seg \o "%24" ELSE quote(seg)

RECURSIVE C9_SegmentsFrom(_, _)
C9_SegmentsFrom(segs, i) ==
    IF i > Len(segs) THEN <<>> ELSE <<C9_Segment(segs[i])>> \o C9_SegmentsFrom(segs, i + 1)

C9_Segments(path) == With(Split(path, "/"), LAMBDA segs : C9_SegmentsFrom(segs, 1))

\* C9: for Kiln and an input that is not resolved as a commit, the URL holds
\* the path with each segment 'bin' written %24bin%24 and the other segments
\* quoted, then ?rev={branch}, then the line suffix :A,B written #A-B
C9_KilnUrl ==
    (url # "" /\ resolver = "Kiln" /\ ~ is_commit(What))
        => url = "https://" \o KilnUser(urlparse(env.remote).netloc) \o ".kilnhg.com/Code/"
                 \o KilnRepo(urlparse(env.remote).path) \o "/Files/"
                 \o Join(C9_Segments(relpath(PathPart(What), WorkTree)), "/")
                 \o "?rev=" \o RepoBranch(env, repo)
                 \o (IF LineSuffix(What) = "" THEN ""
                     ELSE "#" \o Replace(LineSuffix(What), ",", "-"))

\* C10: a commit URL is returned only for an input that is, as a whole, a
\* commit identifier
C10_CommitUrlOnlyForCommitId ==
    (url # "" /\ Contains(url, CommitMarker(resolver))) => WholeCommitId(What)

====
